---- MODULE Spec2Model ----
(***************************************************************************)
(* A model of replace.py: the node graph of the host (nodes, their class,  *)
(* their ordered input slots, the selection), the backward breadth-first   *)
(* search findCameraUpstream, the splice replaceCamera, the wildcard path  *)
(* resolution of BackdropShot and the batch replaceBackdropCameras.        *)
(*                                                                         *)
(* A node is a pair <<origin, k>>: origin 0 is a node of the script before *)
(* the call, origin j > 0 is a node pasted by the j-th successful import.  *)
(* A graph is a record [inputs, cls] of two functions over the live nodes; *)
(* a deleted node is in neither domain, and every access to it raises      *)
(* ValueError in the host.                                                 *)
(***************************************************************************)
EXTENDS Integers, Sequences, FiniteSets, TLC

VARIABLES
    inputs,          \* live node -> sequence of input slots (a node or NoNode)
    cls,             \* live node -> class name
    selected,        \* the host's selected nodes
    hostReroutes,    \* host behaviour on delete: reconnect consumers to input 0, or disconnect
    \* findCameraUpstream, run on its own
    fnodes,          \* the list `nodes`
    flevel,          \* what is left of the copy nodes[:] the for loop iterates
    fres,            \* the returned node, NoNode for None
    fpc,             \* "off", "run", "done"
    fdv,             \* delete_visited
    fstart,          \* the start node
    fexp,            \* node -> number of times it was expanded, counted up to MaxCount
    g0,              \* the graph the search started on
    \* replaceBackdropCameras
    pc,              \* "off", "idle", "loop", "dialog", "splice", "done"
    sel0,            \* the selection restore_selection recorded
    shots,           \* the backdrops of the BackdropShots of getFromNodes
    todo,            \* the backdrops the for loop has not reached yet
    visited,         \* the backdrops the for loop has reached, in order
    cur,             \* the backdrop of the current iteration
    cams,            \* the cameras of `cameras` not yet replaced
    path,            \* the local `path`, NoPath for None
    resolved,        \* backdrop -> the list `paths` found for it
    picked,          \* backdrop -> index accepted in the dialog, 0 for none
    notified,        \* the backdrops showMissingCameraError was shown for
    calls,           \* the calls of replaceCamera made, in order
    results,         \* the local `results`
    returned,        \* what the decorated call returned
    nimports,        \* number of imports that pasted nodes
    last,            \* the last call of replaceCamera: arguments, graph before, outcome
    \* BackdropShot.getCameraPaths
    shot,            \* the BackdropShot: project, episode, sequence, shot
    fs,              \* the camera files on disk
    ppc,             \* "off", "first", "retry", "done"
    pathsOut         \* the list `paths` of replaceBackdropCameras

graphVars == <<inputs, cls, selected, hostReroutes>>
findVars == <<fnodes, flevel, fres, fpc, fdv, fstart, fexp, g0>>
batchVars == <<pc, sel0, shots, todo, visited, cur, cams, path, resolved, picked,
               notified, calls, results, returned, nimports, last>>
pathVars == <<shot, fs, ppc, pathsOut>>
vars == <<graphVars, findVars, batchVars, pathVars>>

NoNode == <<0, 0>>
\* the empty list restore_selection returns when the wrapped function raised
EmptyList == <<0, -1>>
NoPath == "None"

----------------------------------------------------------------------------
(* The host's graph interface *)

Live(g) == DOMAIN g.inputs

RECURSIVE Uniq(_)
Uniq(s) ==
    IF s = <<>> THEN <<>>
    ELSE LET h == Head(s) IN <<h>> \o Uniq(SelectSeq(Tail(s), LAMBDA x : x # h))

\* node.dependencies(): the nodes the input slots point at, in slot order
Dependencies(g, n) == Uniq(SelectSeq(g.inputs[n], LAMBDA x : x # NoNode))

\* node.dependent(): the nodes with an input slot pointing at n
Dependent(g, n) ==
    {d \in Live(g) : \E i \in 1..Len(g.inputs[d]) : g.inputs[d][i] = n}

\* Delete with a fault: the node is left in the graph.
DeleteNothing(g, n, reroute) == g

\* nuke.delete(n): n leaves the graph; a slot that pointed at n is
\* disconnected, or reconnected to n's input 0 when the host reroutes.
Delete(g, n, reroute) ==
    IF n \notin Live(g) THEN g
    ELSE LET in0 == IF reroute /\ Len(g.inputs[n]) > 0 THEN g.inputs[n][1] ELSE NoNode
             Repl(d) == IF in0 = n \/ in0 = d THEN NoNode ELSE in0
             rest == Live(g) \ {n}
         IN  [inputs |-> [d \in rest |->
                            [i \in 1..Len(g.inputs[d]) |->
                                IF g.inputs[d][i] = n THEN Repl(d) ELSE g.inputs[d][i]]],
              cls |-> [d \in rest |-> g.cls[d]]]

\* dep.setInput(i, src)
SetInput(g, d, i, src) ==
    IF d \in Live(g) THEN [g EXCEPT !.inputs[d][i] = src] ELSE g

----------------------------------------------------------------------------
(* findCameraUpstream *)

\* list.remove(x): drops the first occurrence of x
RECURSIVE RemoveFirst(_, _)
RemoveFirst(s, x) ==
    IF s = <<>> THEN <<>>
    ELSE IF Head(s) = x THEN Tail(s)
    ELSE <<Head(s)>> \o RemoveFirst(Tail(s), x)

FindStart(g, node) ==
    [nodes |-> <<node>>, level |-> <<>>, g |-> g, res |-> NoNode, done |-> FALSE]

\* FindStep with a fault: a stack instead of a queue, the dependencies of a
\* node are visited before its siblings.
FindStepDepthFirst(st, dv, reroute) ==
    IF st.nodes = <<>> THEN [st EXCEPT !.done = TRUE]
    ELSE LET node == Head(st.nodes)
             s1 == [st EXCEPT !.nodes = Tail(@)]
         IN  IF node \notin Live(st.g) THEN s1
             ELSE IF st.g.cls[node] = "Camera"
                  THEN [s1 EXCEPT !.res = node, !.done = TRUE]
             ELSE [s1 EXCEPT !.nodes = Dependencies(st.g, node) \o Tail(st.nodes),
                             !.g = IF dv THEN Delete(st.g, node, reroute) ELSE st.g]

\* One step of the loops of findCameraUpstream: the test of `while nodes`
\* with the copy nodes[:], or one pass of the body of the for loop.
FindStep(st, dv, reroute) ==
    IF st.level = <<>>
    THEN IF st.nodes = <<>>
         THEN [st EXCEPT !.done = TRUE]
         ELSE [st EXCEPT !.level = st.nodes]
    ELSE LET node == Head(st.level)
             s1 == [st EXCEPT !.level = Tail(@),
                              !.nodes = RemoveFirst(st.nodes, node)]
         IN  IF node \notin Live(st.g) THEN s1
             ELSE IF st.g.cls[node] = "Camera"
                  THEN [s1 EXCEPT !.res = node, !.done = TRUE]
             ELSE [s1 EXCEPT !.nodes = s1.nodes \o Dependencies(st.g, node),
                             !.g = IF dv THEN Delete(st.g, node, reroute) ELSE st.g]

\* The whole call, for a caller that runs it to its return.
RECURSIVE FindRun(_, _, _)
FindRun(st, dv, reroute) ==
    IF st.done THEN st ELSE FindRun(FindStep(st, dv, reroute), dv, reroute)

FindCameraUpstream(g, node, dv, reroute) == FindRun(FindStart(g, node), dv, reroute)

----------------------------------------------------------------------------
(* replaceCamera *)

\* GetOutputs with a fault: only the first matching slot of each consumer.
GetOutputsFirstSlot(g, node) ==
    UNION {{<<d, i>> : i \in {j \in 1..Len(g.inputs[d]) :
                                /\ g.inputs[d][j] = node
                                /\ \A l \in 1..(j - 1) : g.inputs[d][l] # node}} :
              d \in Dependent(g, node)}

\* getOutputs(node): the (consumer, input index) pairs connected to node
GetOutputs(g, node) ==
    UNION {{<<d, i>> : i \in {j \in 1..Len(g.inputs[d]) : g.inputs[d][j] = node}} :
              d \in Dependent(g, node)}

\* What a camera file may hold, as nuke.nodePaste pastes it: the classes and
\* the input slots of its nodes (0 for an empty slot), and the node returned.
Shapes ==
    [ first  |-> [cls |-> <<"Scene", "Camera", "Axis">>,
                  inputs |-> << <<2, 3>>, <<>>, <<>> >>, root |-> 1],
      down   |-> [cls |-> <<"Group", "Camera", "Scene", "Dot">>,
                  inputs |-> << <<2>>, <<>>, <<2, 0>>, <<3>> >>, root |-> 1],
      nocam  |-> [cls |-> <<"Group", "Axis">>,
                  inputs |-> << <<2>>, <<>> >>, root |-> 1],
      orphan |-> [cls |-> <<"Axis", "Group">>,
                  inputs |-> << <<>>, <<>> >>, root |-> 2] ]

ShapeNames == DOMAIN Shapes

\* nuke.nodePaste returning None, or raising
PasteOutcomes == ShapeNames \cup {"none", "raise"}

\* the nodes the k-th import pastes
Pasted(sh, k) == {<<k, i>> : i \in 1..Len(sh.cls)}

\* nuke.nodePaste(path) of a file holding sh, as the k-th import: nothing is
\* selected, so the pasted nodes are connected to no node of the script
NodePaste(g, sh, k) ==
    LET new == Pasted(sh, k)
        Slot(x) == IF x = 0 THEN NoNode ELSE <<k, x>>
    IN  [inputs |-> [n \in Live(g) \cup new |->
                        IF n \in new
                        THEN [i \in 1..Len(sh.inputs[n[2]]) |-> Slot(sh.inputs[n[2]][i])]
                        ELSE g.inputs[n]],
         cls |-> [n \in Live(g) \cup new |->
                        IF n \in new THEN sh.cls[n[2]] ELSE g.cls[n]]]

\* for dep in ds: nuke.delete(dep)
RECURSIVE DeleteAll(_, _, _)
DeleteAll(g, ds, reroute) ==
    IF ds = {} THEN g
    ELSE LET d == CHOOSE x \in ds : TRUE
         IN  DeleteAll(Delete(g, d, reroute), ds \ {d}, reroute)

\* for dep, i in outs: dep.setInput(i, src)
RECURSIVE SetInputs(_, _, _)
SetInputs(g, outs, src) ==
    IF outs = {} THEN g
    ELSE LET o == CHOOSE x \in outs : TRUE
         IN  SetInputs(SetInput(g, o[1], o[2], src), outs \ {o}, src)

\* lines 108-114: the splice once the new camera is found
Splice(g, camera, new_cam, dependent, reroute) ==
    LET g1 == DeleteAll(g, Dependent(g, new_cam), reroute)
        g2 == Delete(g1, camera, reroute)
    IN  SetInputs(g2, dependent, new_cam)

\* ReplaceCameraBody with a fault: the old camera is deleted before the
\* import is known to have produced a camera.
ReplaceCameraBodyDeleteFirst(g, camera, p, paste, k, reroute) ==
    IF camera \notin Live(g) \/ p = NoPath \/ paste = "raise"
    THEN [g |-> g, ret |-> NoNode, raised |-> TRUE, root |-> NoNode]
    ELSE LET dependent == GetOutputs(g, camera)
             gd == Delete(g, camera, reroute)
         IN  IF paste = "none"
             THEN [g |-> gd, ret |-> NoNode, raised |-> FALSE, root |-> NoNode]
             ELSE LET sh == Shapes[paste]
                      new_node == <<k, sh.root>>
                      f == FindCameraUpstream(NodePaste(gd, sh, k), new_node, TRUE, reroute)
                  IN  IF f.res = NoNode
                      THEN [g |-> f.g, ret |-> NoNode, raised |-> FALSE, root |-> new_node]
                      ELSE [g |-> Splice(f.g, camera, f.res, dependent, reroute),
                            ret |-> f.res, raised |-> FALSE, root |-> new_node]

\* The body of replaceCamera(camera, path) as the k-th import. A deleted
\* camera makes getOutputs raise ValueError; nodePaste(None) raises TypeError.
ReplaceCameraBody(g, camera, p, paste, k, reroute) ==
    IF camera \notin Live(g) \/ p = NoPath \/ paste = "raise"
    THEN [g |-> g, ret |-> NoNode, raised |-> TRUE, root |-> NoNode]
    ELSE LET dependent == GetOutputs(g, camera)
         IN  IF paste = "none"
             THEN [g |-> g, ret |-> NoNode, raised |-> FALSE, root |-> NoNode]
             ELSE LET sh == Shapes[paste]
                      new_node == <<k, sh.root>>
                      f == FindCameraUpstream(NodePaste(g, sh, k), new_node, TRUE, reroute)
                  IN  IF f.res = NoNode
                      THEN [g |-> f.g, ret |-> NoNode, raised |-> FALSE, root |-> new_node]
                      ELSE [g |-> Splice(f.g, camera, f.res, dependent, reroute),
                            ret |-> f.res, raised |-> FALSE, root |-> new_node]

\* iterNodes(stuff) for what replaceCamera returns: a node, None or []
NodesOfReturn(ret) == IF ret \in {NoNode, EmptyList} THEN {} ELSE {ret}

\* restore_selection: the selection after the wrapped call is the new nodes
\* and the nodes selected before that still exist (ValueError is passed over)
RestoreSelection(g, before, new_nodes) ==
    {n \in new_nodes : n \in Live(g)} \cup {n \in before : n \in Live(g)}

\* replaceCamera as decorated: `return new_stuff` in the finally clause
\* returns [] when the body raised.
ReplaceCamera(g, sel, camera, p, paste, k, reroute) ==
    LET b == ReplaceCameraBody(g, camera, p, paste, k, reroute)
        ret == IF b.raised THEN EmptyList ELSE b.ret
    IN  [g |-> b.g, ret |-> ret, root |-> b.root,
         sel |-> RestoreSelection(b.g, sel, NodesOfReturn(ret))]

NoCall == [cam |-> NoNode, path |-> NoPath, paste |-> "off", root |-> NoNode,
           ret |-> NoNode, pre |-> [inputs |-> <<>>, cls |-> <<>>], presel |-> {}]

NoShot == [project |-> "", episode |-> <<>>, sequence |-> <<>>, shot |-> <<>>]

\* no path resolution is running
PathsOff ==
    /\ shot = NoShot
    /\ fs = {}
    /\ ppc = "off"
    /\ pathsOut = <<>>

\* the batch is not running
BatchOff ==
    /\ pc = "off"
    /\ sel0 = {}
    /\ shots = {}
    /\ todo = {}
    /\ visited = <<>>
    /\ cur = NoNode
    /\ cams = <<>>
    /\ path = NoPath
    /\ resolved = <<>>
    /\ picked = <<>>
    /\ notified = {}
    /\ calls = <<>>
    /\ results = <<>>
    /\ returned = <<>>
    /\ nimports = 0
    /\ last = NoCall


----------------------------------------------------------------------------
(* The script before the call: three backdrops with Read nodes, cameras    *)
(* and the nodes that consume them.                                        *)

B1 == <<0, 1>>
B2 == <<0, 2>>
B3 == <<0, 3>>
B4 == <<0, 4>>
r1 == <<0, 11>>
r2 == <<0, 12>>
r3 == <<0, 13>>
r4 == <<0, 14>>
c1 == <<0, 21>>
c2 == <<0, 22>>
c3 == <<0, 23>>
c4 == <<0, 24>>
a1 == <<0, 31>>
s1 == <<0, 41>>
s2 == <<0, 42>>
s3 == <<0, 43>>

Backdrops == {B1, B2, B3, B4}

Inputs0 ==
    [n \in {B1, B2, B3, B4, r1, r2, r3, r4, c1, c2, c3, c4, a1, s1, s2, s3} |->
        CASE n = c1 -> <<a1>>
          [] n = s1 -> <<r1, c1, c2>>
          [] n = s2 -> <<c1, NoNode, c1>>
          [] n = s3 -> <<r2, c3>>
          [] OTHER -> <<>>]

Cls0 ==
    [n \in DOMAIN Inputs0 |->
        CASE n \in Backdrops -> "BackdropNode"
          [] n \in {r1, r2, r3, r4} -> "Read"
          [] n \in {c1, c2, c3, c4} -> "Camera"
          [] n = a1 -> "Axis"
          [] OTHER -> "ScanlineRender"]

\* nuke.getBackdropNodes(backdrop): the nodes inside the backdrop
BackdropNodes(b) ==
    CASE b = B1 -> <<r1, c1, c2, s1>>
      [] b = B2 -> <<r2, c3, s3>>
      [] b = B3 -> <<r3>>
      [] b = B4 -> <<r4, c4>>
      [] OTHER -> <<>>

\* nuke.getBackdrop(node): the backdrop the node is in, NoNode for none
GetBackdrop(n) ==
    IF \E b \in Backdrops : \E i \in 1..Len(BackdropNodes(b)) : BackdropNodes(b)[i] = n
    THEN CHOOSE b \in Backdrops : \E i \in 1..Len(BackdropNodes(b)) : BackdropNodes(b)[i] = n
    ELSE NoNode

\* getBackdrops(nodes)
GetBackdrops(nodes) == {GetBackdrop(n) : n \in nodes} \ {NoNode}

\* BackdropShot.getFromBackdrop(bd) is not None: the best Read path of the
\* backdrop names project, episode, sequence and shot. The Read of B4 does not.
Identified(b) == b \in {B1, B2, B3}

\* BackdropShot.getFromNodes(nodes), as the backdrops of the shots
GetFromNodes(nodes) == {b \in GetBackdrops(nodes) : Identified(b)}

\* BackdropShot.getCameras()
GetCameras(g, b) ==
    SelectSeq(BackdropNodes(b), LAMBDA n : n \in Live(g) /\ g.cls[n] = "Camera")

\* what the user may have selected when the batch starts
Selections == {{r1, c1}, {r2, B2}, {c1, s1, r2, r3, r4}}

\* the lists getCameraPaths may come back with after both attempts
PathLists == {<<>>, <<"p1">>, <<"p1", "p2", "p3">>}

Init ==
    /\ inputs = Inputs0
    /\ cls = Cls0
    /\ selected \in Selections
    /\ hostReroutes \in BOOLEAN
    /\ fnodes = <<>>
    /\ flevel = <<>>
    /\ fres = NoNode
    /\ fpc = "off"
    /\ fdv = TRUE
    /\ fstart = NoNode
    /\ fexp = <<>>
    /\ g0 = [inputs |-> <<>>, cls |-> <<>>]
    /\ pc = "idle"
    /\ sel0 = {}
    /\ shots = {}
    /\ todo = {}
    /\ visited = <<>>
    /\ cur = NoNode
    /\ cams = <<>>
    /\ path = NoPath
    /\ resolved = [b \in Backdrops |-> <<>>]
    /\ picked = [b \in Backdrops |-> 0]
    /\ notified = {}
    /\ calls = <<>>
    /\ results = <<>>
    /\ returned = <<>>
    /\ nimports = 0
    /\ last = NoCall
    /\ PathsOff

Graph == [inputs |-> inputs, cls |-> cls]

----------------------------------------------------------------------------
(* replaceBackdropCameras *)

\* restore_selection records the selection; nodes is None, so the selection
\* is the node list; BackdropShot.getFromNodes(nodes)
Start ==
    /\ pc = "idle"
    /\ sel0' = selected
    /\ shots' = GetFromNodes(selected)
    /\ todo' = GetFromNodes(selected)
    /\ results' = <<>>
    /\ pc' = "loop"
    /\ UNCHANGED <<graphVars, findVars, pathVars, visited, cur, cams, path, resolved, picked,
                   notified, calls, returned, nimports, last>>

\* lines 441-443: a backdrop without cameras is passed over
SkipNoCameras ==
    /\ pc = "loop"
    /\ \E b \in todo :
          /\ GetCameras(Graph, b) = <<>>
          /\ todo' = todo \ {b}
          /\ visited' = Append(visited, b)
    /\ UNCHANGED <<graphVars, findVars, pathVars, pc, sel0, shots, cur, cams, path, resolved,
                   picked, notified, calls, results, returned, nimports, last>>

\* lines 441-452 and 460-461: the cameras, the candidate paths of the two
\* attempts, and the path when the list decides it
Resolve ==
    /\ pc = "loop"
    /\ \E b \in todo :
          /\ GetCameras(Graph, b) # <<>>
          /\ todo' = todo \ {b}
          /\ visited' = Append(visited, b)
          /\ cur' = b
          /\ cams' = GetCameras(Graph, b)
          /\ \E paths \in PathLists :
                /\ resolved' = [resolved EXCEPT ![b] = paths]
                /\ path' = IF Len(paths) = 1 THEN paths[1] ELSE NoPath
                /\ pc' = IF Len(paths) > 1 THEN "dialog" ELSE "splice"
                /\ notified' = IF Len(paths) = 0 THEN notified \cup {b} ELSE notified
    /\ UNCHANGED <<graphVars, findVars, pathVars, sel0, shots, picked, calls, results,
                   returned, nimports, last>>

\* GetPathChoice with a fault: the first candidate, whatever was picked.
GetPathChoiceFirst(paths, index) == paths[1]

\* getPathChoice on Accepted: paths[box.currentIndex()]
GetPathChoice(paths, index) == paths[index]

\* ChoiceErrorEscapes with a fault: no except clause around getPathChoice.
ChoiceErrorEscapesTry(index) == index = -1

\* lines 454-458: `except Exception` lets nothing getPathChoice raises out
ChoiceErrorEscapes(index) == FALSE

\* lines 453-461: the dialog is accepted with a candidate (index >= 1),
\* cancelled (0, getPathChoice returns None) or raises (-1); a path that is
\* still None is reported. An exception that left the function would end
\* the call in the finally clause of restore_selection, which returns [].
Dialog ==
    /\ pc = "dialog"
    /\ \E index \in -1..Len(resolved[cur]) :
          /\ picked' = [picked EXCEPT ![cur] = index]
          /\ IF ChoiceErrorEscapes(index)
             THEN /\ pc' = "done"
                  /\ returned' = <<>>
                  /\ selected' = RestoreSelection(Graph, sel0, {})
                  /\ UNCHANGED <<path, notified>>
             ELSE /\ pc' = "splice"
                  /\ path' = IF index < 1 THEN NoPath
                             ELSE GetPathChoice(resolved[cur], index)
                  /\ notified' = IF index < 1 THEN notified \cup {cur} ELSE notified
                  /\ UNCHANGED <<returned, selected>>
    /\ UNCHANGED <<inputs, cls, hostReroutes, findVars, pathVars, sel0, shots, todo, visited, cur,
                   cams, resolved, calls, results, nimports, last>>

\* lines 464-467: replaceCamera on the next camera of the backdrop
SpliceCamera ==
    /\ pc = "splice"
    /\ cams # <<>>
    /\ \E paste \in (IF path = NoPath THEN {"raise"} ELSE PasteOutcomes) :
          \E r \in {ReplaceCamera(Graph, selected, Head(cams), path, paste,
                                  nimports + 1, hostReroutes)} :
              /\ inputs' = r.g.inputs
              /\ cls' = r.g.cls
              /\ selected' = r.sel
              /\ nimports' = IF r.root = NoNode THEN nimports ELSE nimports + 1
              /\ calls' = Append(calls, [bd |-> cur, cam |-> Head(cams),
                                         path |-> path, ret |-> r.ret])
              /\ results' = IF NodesOfReturn(r.ret) # {}
                            THEN Append(results, <<cur, path, r.ret>>) ELSE results
              /\ last' = [cam |-> Head(cams), path |-> path, paste |-> paste,
                          root |-> r.root, ret |-> r.ret, pre |-> Graph,
                          presel |-> selected]
    /\ cams' = Tail(cams)
    /\ UNCHANGED <<hostReroutes, findVars, pathVars, pc, sel0, shots, todo, visited, cur, path,
                   resolved, picked, notified, returned>>

\* the for loop over the cameras is over
EndContainer ==
    /\ pc = "splice"
    /\ cams = <<>>
    /\ pc' = "loop"
    /\ cur' = NoNode
    /\ path' = NoPath
    /\ UNCHANGED <<graphVars, findVars, pathVars, sel0, shots, todo, visited, cams, resolved,
                   picked, notified, calls, results, returned, nimports, last>>

\* iterNodes(results): the nuke.Node members of the result tuples
\* (backdrop, path, camera); a path is a str and has no __iter__
NodesOfResults(res) ==
    UNION {{res[i][1], res[i][3]} : i \in 1..Len(res)}

\* line 473 and the finally clause of restore_selection
Finish ==
    /\ pc = "loop"
    /\ todo = {}
    /\ selected' = RestoreSelection(Graph, sel0, NodesOfResults(results))
    /\ returned' = results
    /\ pc' = "done"
    /\ UNCHANGED <<inputs, cls, hostReroutes, findVars, pathVars, sel0, shots, todo, visited, cur,
                   cams, path, resolved, picked, notified, calls, results, nimports, last>>

Next == Start \/ SkipNoCameras \/ Resolve \/ Dialog \/ SpliceCamera \/ EndContainer \/ Finish

Spec == Init /\ [][Next]_vars

----------------------------------------------------------------------------
(* Claims about replaceCamera and replaceBackdropCameras *)

Graph0 == [inputs |-> Inputs0, cls |-> Cls0]

\* the (consumer, slot) pairs of g connected to node n
ConnectedTo(g, n) ==
    UNION {{<<d, i>> : i \in {j \in 1..Len(g.inputs[d]) : g.inputs[d][j] = n}} :
              d \in Live(g)}

\* C1: when the import pasted nodes and the destructive search found no
\* Camera among them, replaceCamera returns None and the nodes of the graph
\* and every input connection are what they were before the call.
C1_NoOpWhenNoCamera ==
    (last.root # NoNode /\ NodesOfReturn(last.ret) = {}) =>
        /\ last.ret = NoNode
        /\ inputs = last.pre.inputs

\* C2: when nuke.nodePaste returns None, replaceCamera returns None, deletes
\* no node and rewires no input: the old camera is still there and every
\* (consumer, slot) pair connected to it before the call still is.
C2_NoOpWhenPasteFails ==
    last.paste = "none" =>
        /\ last.ret = NoNode
        /\ Live(Graph) = Live(last.pre)
        /\ last.cam \in Live(Graph)
        /\ \A d \in Live(last.pre) : inputs[d] = last.pre.inputs[d]
        /\ ConnectedTo(Graph, last.cam) = ConnectedTo(last.pre, last.cam)

\* C2 witness: an import returned None for a camera with consumers.
C2_Witness ==
    /\ last.paste = "none"
    /\ ConnectedTo(last.pre, last.cam) # {}

\* C3: when replaceCamera succeeds, every (consumer, slot) pair connected to
\* the old camera before the call is connected to the new camera after it,
\* and every other node of the script that was not a consumer of the old
\* camera still exists with all its inputs unchanged (the old camera is the
\* node replaced).
C3_ConsumersRewired ==
    NodesOfReturn(last.ret) # {} =>
        /\ last.ret \in Live(Graph)
        /\ cls[last.ret] = "Camera"
        /\ \A o \in ConnectedTo(last.pre, last.cam) :
              o[1] \in Live(Graph) /\ inputs[o[1]][o[2]] = last.ret
        /\ \A n \in Live(last.pre) \ {last.cam} :
              (\A i \in 1..Len(last.pre.inputs[n]) : last.pre.inputs[n][i] # last.cam)
                  => (n \in Live(Graph) /\ inputs[n] = last.pre.inputs[n])

\* C3 witness: a camera with a consumer connected to it through two slots,
\* and with other wired nodes in the script, was replaced.
C3_Witness ==
    /\ NodesOfReturn(last.ret) # {}
    /\ \E d \in Live(last.pre) :
          Cardinality({o \in ConnectedTo(last.pre, last.cam) : o[1] = d}) > 1
    /\ \E n \in Live(last.pre) \ {last.cam} :
          /\ last.pre.inputs[n] # <<>>
          /\ \A i \in 1..Len(last.pre.inputs[n]) : last.pre.inputs[n][i] # last.cam

\* C4: a container whose two path attempts found no candidate is reported
\* and passed over: replaceCamera is called for none of its cameras.
C4_SkippedWhenNoPath ==
    \A k \in 1..Len(visited) :
        (GetCameras(Graph0, visited[k]) # <<>> /\ resolved[visited[k]] = <<>>) =>
            /\ visited[k] \in notified
            /\ \A j \in 1..Len(calls) : calls[j].bd # visited[k]

IsPrefix(s, t) == Len(s) <= Len(t) /\ \A i \in 1..Len(s) : s[i] = t[i]

Range(s) == {s[i] : i \in 1..Len(s)}

\* C5: a failure in one container never aborts the batch: the results
\* recorded so far stay in the list, and when the call returns every
\* container of the batch has been processed and the list returned is the
\* list of the results recorded.
C5_FaultIsolation ==
    /\ [][IsPrefix(results, results')]_vars
    /\ [](pc = "done" => (Range(visited) = shots /\ todo = {} /\ returned = results))

\* the container failed: no path, or a splice of it returned no camera
Failed(b) ==
    \/ b \in notified
    \/ \E j \in 1..Len(calls) : calls[j].bd = b /\ NodesOfReturn(calls[j].ret) = {}

\* C5 witness: the batch returned; the dialog of the first container raised
\* and a later container contributed a result.
C5_Witness ==
    /\ pc = "done"
    /\ \E i, j \in 1..Len(visited) :
          /\ i < j
          /\ picked[visited[i]] = -1
          /\ Failed(visited[i])
          /\ \E k \in 1..Len(returned) : returned[k][1] = visited[j]

\* C6: after replaceBackdropCameras the selection is the nodes selected
\* before that still exist and the new cameras, and nothing else.
C6_SelectionRestored ==
    pc = "done" =>
        selected = {n \in sel0 : n \in Live(Graph)}
                       \cup {returned[k][3] : k \in 1..Len(returned)}

\* the path the container was to be spliced with
Chosen(b) ==
    IF Len(resolved[b]) = 1 THEN resolved[b][1]
    ELSE IF Len(resolved[b]) > 1 /\ picked[b] >= 1 THEN resolved[b][picked[b]]
    ELSE NoPath

CallsOf(b) == SelectSeq(calls, LAMBDA c : c.bd = b)
ResultsOf(b) == SelectSeq(results, LAMBDA r : r[1] = b)

\* C7: once the cameras of a container with a chosen path are done, each of
\* its k cameras was spliced once, in order, with that path; it has one
\* result per splice that returned a camera, each with that path, so k
\* results when all the splices succeeded.
C7_OnePathPerContainer ==
    \A b \in Range(visited) \ {cur} :
        Chosen(b) # NoPath =>
            LET cs == CallsOf(b)
                rs == ResultsOf(b)
                ok == SelectSeq(cs, LAMBDA c : NodesOfReturn(c.ret) # {})
            IN  /\ [i \in 1..Len(cs) |-> cs[i].cam] = GetCameras(Graph0, b)
                /\ \A i \in 1..Len(cs) : cs[i].path = Chosen(b)
                /\ [i \in 1..Len(rs) |-> rs[i][3]] = [i \in 1..Len(ok) |-> ok[i].ret]
                /\ \A i \in 1..Len(rs) : rs[i][2] = Chosen(b)
                /\ Len(ok) = Len(cs) => Len(rs) = Len(GetCameras(Graph0, b))

\* C7 witness: a container with two cameras and three candidates, the second
\* accepted in the dialog, has two results.
C7_Witness ==
    \E b \in Range(visited) \ {cur} :
        /\ Len(GetCameras(Graph0, b)) = 2
        /\ Len(resolved[b]) = 3
        /\ picked[b] = 2
        /\ Len(ResultsOf(b)) = 2

----------------------------------------------------------------------------
(* findCameraUpstream on bounded graphs, one step at a time *)

DepSet(g, n) == {g.inputs[n][i] : i \in 1..Len(g.inputs[n])} \ {NoNode}

\* the nodes at most k dependency edges upstream of n in g
RECURSIVE Within(_, _, _)
Within(g, n, k) ==
    IF k = 0 THEN {n}
    ELSE LET w == Within(g, n, k - 1) IN w \cup UNION {DepSet(g, m) : m \in w}

Upstream(g, n) == Within(g, n, Cardinality(Live(g)))

UpstreamOfInputs(inp, n) == Upstream([inputs |-> inp], n)

NumFindNodes == 4
MaxEdges == 3
MaxQueue == 8
MaxCount == 2

FindNodes == {<<1, k>> : k \in 1..NumFindNodes}

\* the sets of at most k elements of S
RECURSIVE SubsetsUpTo(_, _)
SubsetsUpTo(S, k) ==
    IF k = 0 \/ S = {} THEN {{}}
    ELSE LET x == CHOOSE y \in S : TRUE
         IN  SubsetsUpTo(S \ {x}, k) \cup {T \cup {x} : T \in SubsetsUpTo(S \ {x}, k - 1)}

\* the dependency edges <<node, dependency>> a graph may have
AllEdges == {e \in FindNodes \X FindNodes : e[1] # e[2]}

\* the orders in which the slots of a node may hold the nodes of d
RECURSIVE Orders(_)
Orders(d) ==
    IF d = {} THEN {<<>>}
    ELSE UNION {{<<x>> \o s : s \in Orders(d \ {x})} : x \in d}

\* one order of d, for the nodes whose slot order no search can observe
RECURSIVE SomeOrder(_)
SomeOrder(d) ==
    IF d = {} THEN <<>>
    ELSE LET x == CHOOSE y \in d : TRUE IN <<x>> \o SomeOrder(d \ {x})

FindClasses == {"Camera", "Axis"}

\* The graphs have at most MaxEdges dependency edges, cycles included. They
\* differ in what is upstream of the start node: a node that is not upstream
\* of it is never visited and is left bare, and so is every other node when
\* the start node is itself a Camera. The slots of the start node are taken
\* in every order.
InitFind ==
    /\ fstart = <<1, 1>>
    /\ \E edges \in SubsetsUpTo(AllEdges, MaxEdges) :
          \E first \in Orders({e[2] : e \in {x \in edges : x[1] = fstart}}) :
              inputs = [n \in FindNodes |->
                          IF n = fstart THEN first
                          ELSE SomeOrder({e[2] : e \in {x \in edges : x[1] = n}})]
    /\ cls \in [FindNodes -> FindClasses]
    /\ \A n \in FindNodes \ UpstreamOfInputs(inputs, fstart) :
          inputs[n] = <<>> /\ cls[n] = "Axis"
    /\ cls[fstart] = "Camera" =>
          \A n \in FindNodes \ {fstart} : inputs[n] = <<>> /\ cls[n] = "Axis"
    /\ selected = {}
    /\ fdv \in BOOLEAN
    /\ hostReroutes \in (IF fdv THEN BOOLEAN ELSE {FALSE})
    /\ fnodes = <<fstart>>
    /\ flevel = <<>>
    /\ fres = NoNode
    /\ fpc = "run"
    /\ fexp = [n \in FindNodes |-> 0]
    /\ g0 = [inputs |-> inputs, cls |-> cls]
    /\ BatchOff
    /\ PathsOff

FindState == [nodes |-> fnodes, level |-> flevel,
              g |-> [inputs |-> inputs, cls |-> cls], res |-> fres, done |-> FALSE]

FindApply(st) ==
    /\ fnodes' = st.nodes
    /\ flevel' = st.level
    /\ inputs' = st.g.inputs
    /\ cls' = st.g.cls
    /\ fres' = st.res
    /\ fpc' = IF st.done THEN "done" ELSE "run"

\* `while nodes:` and `for node in nodes[:]`
FindWhile ==
    /\ fpc = "run"
    /\ flevel = <<>>
    /\ FindApply(FindStep(FindState, fdv, hostReroutes))
    /\ UNCHANGED <<selected, hostReroutes, fdv, fstart, fexp, g0, batchVars, pathVars>>

\* the body of the for loop on the next node of the copy
FindVisit ==
    /\ fpc = "run"
    /\ flevel # <<>>
    /\ Len(fnodes) <= MaxQueue
    /\ LET node == Head(flevel)
           expands == node \in DOMAIN inputs /\ cls[node] # "Camera"
       IN  fexp' = IF expands /\ fexp[node] < MaxCount
                   THEN [fexp EXCEPT ![node] = @ + 1] ELSE fexp
    /\ FindApply(FindStep(FindState, fdv, hostReroutes))
    /\ UNCHANGED <<selected, hostReroutes, fdv, fstart, g0, batchVars, pathVars>>

NextFind == FindWhile \/ FindVisit

SpecFind == InitFind /\ [][NextFind]_vars /\ WF_vars(NextFind)

----------------------------------------------------------------------------
(* Claims about findCameraUpstream *)

CamerasWithin(g, n, k) == {c \in Within(g, n, k) : g.cls[c] = "Camera"}

\* the Camera nodes at the least upstream distance from n
NearestCameras(g, n) ==
    LET ks == {k \in 0..Cardinality(Live(g)) : CamerasWithin(g, n, k) # {}}
    IN  IF ks = {} THEN {}
        ELSE CamerasWithin(g, n, CHOOSE k \in ks : \A j \in ks : k <= j)

\* n lies on a dependency cycle of g
OnCycle(g, n) == \E m \in DepSet(g, n) : n \in Upstream(g, m)

Acyclic(g) == \A n \in Live(g) : ~OnCycle(g, n)

\* C9: when findCameraUpstream(start) returns, it returns a Camera node at
\* the least upstream distance from start among the Camera nodes reachable
\* over dependency edges (start itself when it is a Camera), and it returns
\* None exactly when no Camera node is reachable upstream of start.
C9_NearestCamera ==
    fpc = "done" =>
        /\ (fres = NoNode) <=> (NearestCameras(g0, fstart) = {})
        /\ fres # NoNode => fres \in NearestCameras(g0, fstart)

\* C9 witness: the search returned a Camera other than start while a
\* farther Camera was reachable too.
C9_Witness ==
    /\ fpc = "done"
    /\ fres # NoNode
    /\ fres # fstart
    /\ \E c \in Upstream(g0, fstart) :
          g0.cls[c] = "Camera" /\ c \notin NearestCameras(g0, fstart)

\* C10: findCameraUpstream returns on every acyclic graph in both modes;
\* with delete_visited it returns on every graph, cycles and shared
\* upstream nodes included, and no node is expanded more than once.
C10_Terminates ==
    /\ (fdv \/ Acyclic(g0)) => <>(fpc = "done")
    /\ [](fdv => \A n \in DOMAIN fexp : fexp[n] <= 1)

\* C10 witness: a destructive search returned None on a graph where start
\* lies on a dependency cycle, so start was reached again after its deletion.
C10_Witness ==
    /\ fpc = "done"
    /\ fdv
    /\ fres = NoNode
    /\ OnCycle(g0, fstart)
    /\ \A n \in Upstream(g0, fstart) : fexp[n] = 1

----------------------------------------------------------------------------
(* BackdropShot._getCameraPaths_blob_method                                *)
(*                                                                         *)
(* A path is a sequence of segments and a segment a sequence of tokens; a  *)
(* digit is a token of its own, so that '%02d' and '%03d' are computed. A  *)
(* segment of a pattern that starts with the token "*" matches every       *)
(* segment that ends with the rest of it.                                  *)

DigitStr == <<"0", "1", "2", "3", "4", "5", "6", "7", "8", "9">>

IsDigit(t) == \E d \in 1..Len(DigitStr) : DigitStr[d] = t
DigitValue(t) == (CHOOSE d \in 1..Len(DigitStr) : DigitStr[d] = t) - 1
IsLetter(t) == t \in {"a", "b", "c"}

\* '%d' % n
RECURSIVE Decimal(_)
Decimal(n) ==
    IF n < 10 THEN <<DigitStr[n + 1]>>
    ELSE Decimal(n \div 10) \o <<DigitStr[(n % 10) + 1]>>

\* '%0wd' % n: zeros in front up to the width w, never fewer digits than n has
Pad(n, w) ==
    LET d == Decimal(n)
    IN  IF Len(d) >= w THEN d ELSE [i \in 1..(w - Len(d)) |-> "0"] \o d

\* int(match.group(1)) for a run of digits
RECURSIVE IntOf(_)
IntOf(ds) ==
    IF ds = <<>> THEN 0 ELSE 10 * IntOf(SubSeq(ds, 1, Len(ds) - 1)) + DigitValue(ds[Len(ds)])

\* the digits at the front of a token sequence
RECURSIVE LeadingDigits(_)
LeadingDigits(ts) ==
    IF ts # <<>> /\ IsDigit(Head(ts)) THEN <<Head(ts)>> \o LeadingDigits(Tail(ts)) ELSE <<>>

\* getNumber: the pattern XX(\d+)([a-z]?) matched, case ignored, at the start
\* of the value; no is -1 and let is "" for (None, None)
GetNumber(value, names) ==
    IF value = <<>> \/ Head(value) \notin names \/ LeadingDigits(Tail(value)) = <<>>
    THEN [no |-> -1, let |-> ""]
    ELSE LET ds == LeadingDigits(Tail(value))
             rest == SubSeq(value, Len(ds) + 2, Len(value))
         IN  [no |-> IntOf(ds),
              let |-> IF rest # <<>> /\ IsLetter(Head(rest)) THEN Head(rest) ELSE ""]

GetEpisodeNumber(sh) == GetNumber(sh.episode, {"EP", "ep"})
GetSequenceNumber(sh) == GetNumber(sh.sequence, {"SQ", "sq"})
GetShotNumber(sh) == GetNumber(sh.shot, {"SH", "sh"})

\* 'xx%0wd%s' % (no, let)
Format(name, w, num) ==
    <<name>> \o Pad(num.no, w) \o (IF num.let = "" THEN <<>> ELSE <<num.let>>)

\* bases, lines 125-128
Bases ==
    << << <<"L:">> >>,
       << <<"P:">>, <<"external">> >>,
       << <<"P:">>, <<"external">>, <<"*">> >>,
       << <<"L:">>, <<"*">> >> >>

\* camera_templates, lines 129-142, filled in
Template(t, base, project, ep, sq, sh, cam) ==
    CASE t = 1 -> base \o << <<project>>, <<"02_production">>, ep, <<"SEQUENCES">>, sq,
                             <<"SHOTS">>, sh, <<"animation">>, <<"camera">>, cam >>
      [] t = 2 -> base \o << <<project>>, <<"02_production">>, ep, sh,
                             <<"animation">>, <<"camera">>, cam >>
      [] t = 3 -> base \o << <<project>>, <<"02_production">>, ep, sq, sh,
                             <<"animation">>, <<"camera">>, cam >>
      [] t = 4 -> base \o << <<project>>, ep, sq, sh,
                             <<"animation">>, <<"camera">>, cam >>

NumTemplates == 4

\* project_maps, lines 143-145
ProjectFolder(project) ==
    CASE project = "Suntop" -> "Suntop_Season_01"
      [] project = "Suntop_S04" -> "Suntop_Season_04"
      [] OTHER -> ""

\* lines 216-219
Projects(sh) ==
    IF ProjectFolder(sh.project) # "" THEN <<sh.project, ProjectFolder(sh.project)>>
    ELSE <<sh.project>>

\* lines 221-228; `if ep_no` is false for None and for 0
Episodes(sh, multi_episode) ==
    IF multi_episode THEN << <<"*">> >>
    ELSE IF GetEpisodeNumber(sh).no > 0
         THEN << Format("ep", 2, GetEpisodeNumber(sh)), Format("ep", 3, GetEpisodeNumber(sh)) >>
         ELSE << sh.episode >>

\* lines 230-235
SequenceNames(sh, multi_sequence) ==
    IF multi_sequence THEN << <<"*">> >>
    ELSE << <<"*">> \o Format("sq", 3, GetSequenceNumber(sh)) >>
ShotNames(sh) == << <<"*">> \o Format("sh", 3, GetShotNumber(sh)) >>
CamNames == << <<"*", ".nk">> >>

EndsWith(seg, tail) ==
    Len(tail) <= Len(seg) /\ SubSeq(seg, Len(seg) - Len(tail) + 1, Len(seg)) = tail

MatchSegment(pat, seg) ==
    IF pat # <<>> /\ Head(pat) = "*" THEN EndsWith(seg, Tail(pat)) ELSE pat = seg

MatchPath(pat, file) ==
    Len(pat) = Len(file) /\ \A i \in 1..Len(pat) : MatchSegment(pat[i], file[i])

RECURSIVE SetToSeq(_)
SetToSeq(S) ==
    IF S = {} THEN <<>>
    ELSE LET x == CHOOSE y \in S : TRUE IN <<x>> \o SetToSeq(S \ {x})

\* glob.glob(path): the files on disk the pattern matches, once each
Glob(files, pat) == SetToSeq({f \in files : MatchPath(pat, f)})

\* paths.extend(globs)
Extend(ps, globs) == ps \o globs

\* lines 237-241: itertools.product over templates, bases, projects and
\* episodes (sequences, shots and cams hold one pattern each), in the order
\* the product yields its combinations
Patterns(sh, multi_episode) ==
    LET projects == Projects(sh)
        episodes == Episodes(sh, multi_episode)
        ne == Len(episodes)
        np == Len(projects)
        nb == Len(Bases)
    IN  [k \in 1..(NumTemplates * nb * np * ne) |->
            Template(((k - 1) \div (ne * np * nb)) + 1,
                     Bases[(((k - 1) \div (ne * np)) % nb) + 1],
                     projects[(((k - 1) \div ne) % np) + 1],
                     episodes[((k - 1) % ne) + 1],
                     SequenceNames(sh, FALSE)[1], ShotNames(sh)[1], CamNames[1])]

\* lines 237-245: the loop over the combinations lo..hi, each one's hits
\* appended after those of the combinations before it
RECURSIVE BlobFrom(_, _, _, _)
BlobFrom(files, pats, lo, hi) ==
    IF lo > hi THEN <<>>
    ELSE IF lo = hi THEN Extend(<<>>, Glob(files, pats[lo]))
    ELSE LET mid == (lo + hi) \div 2
         IN  Extend(BlobFrom(files, pats, lo, mid), BlobFrom(files, pats, mid + 1, hi))

\* _getCameraPaths_blob_method(multi_episode)
GetCameraPaths(sh, files, multi_episode) ==
    LET pats == Patterns(sh, multi_episode)
    IN  BlobFrom(files, pats, 1, Len(pats))

----------------------------------------------------------------------------
(* The path resolution of replaceBackdropCameras on bounded disks *)

ProjectNames == {"Suntop", "Gumball"}

EpisodeValues ==
    { <<"EP", "0", "7">>, <<"ep", "1", "2", "a">>, <<"EP", "1", "0", "0">>,
      <<"ep", "1", "2", "3", "b">>, <<"EP", "0">>, <<"pilot">> }

\* the folder an episode is kept in on disk
EpisodeFolders(ep) ==
    LET num == GetNumber(ep, {"EP", "ep"})
    IN  IF num.no > 0 THEN {Format("ep", 2, num), Format("ep", 3, num)} ELSE {ep}

Sq010 == <<"sq", "0", "1", "0">>
Sh020 == <<"sh", "0", "2", "0">>

\* camera files of sequence 10, shot 20 that may be on disk
CameraFiles(project, epdir) ==
    { << <<"L:">>, <<project>>, <<"02_production">>, epdir, <<"SEQUENCES">>, Sq010,
         <<"SHOTS">>, Sq010 \o <<"_">> \o Sh020, <<"animation">>, <<"camera">>,
         Sq010 \o <<"_">> \o Sh020 \o <<"_cam", ".nk">> >>,
      << <<"L:">>, <<project>>, <<"02_production">>, epdir, Sq010, Sh020,
         <<"animation">>, <<"camera">>, Sh020 \o <<".nk">> >>,
      << <<"P:">>, <<"external">>, <<"vendor">>, <<project>>, epdir, epdir \o <<"_">> \o Sq010,
         Sh020, <<"animation">>, <<"camera">>, Sh020 \o <<"_cam", ".nk">> >>,
      << <<"L:">>, <<project>>, <<"02_production">>, <<"ep", "9", "9">>, Sh020,
         <<"animation">>, <<"camera">>, Sh020 \o <<"_cam", ".nk">> >> }

MaxFiles == 2

InitPaths ==
    /\ \E project \in ProjectNames, ep \in EpisodeValues :
          /\ shot = [project |-> project, episode |-> ep,
                     sequence |-> <<"SQ", "0", "1", "0">>, shot |-> <<"SH", "0", "2", "0">>]
          /\ \E epdir \in EpisodeFolders(ep) :
                /\ fs \in SUBSET (CameraFiles(project, epdir)
                                  \cup CameraFiles(ProjectFolder(project), epdir))
                /\ Cardinality(fs) <= MaxFiles
    /\ ppc = "first"
    /\ pathsOut = <<>>
    /\ inputs = <<>>
    /\ cls = <<>>
    /\ selected = {}
    /\ hostReroutes = FALSE
    /\ fnodes = <<>>
    /\ flevel = <<>>
    /\ fres = NoNode
    /\ fpc = "off"
    /\ fdv = TRUE
    /\ fstart = NoNode
    /\ fexp = <<>>
    /\ g0 = [inputs |-> <<>>, cls |-> <<>>]
    /\ BatchOff

\* line 447: paths = bds.getCameraPaths()
FirstAttempt ==
    /\ ppc = "first"
    /\ pathsOut' = GetCameraPaths(shot, fs, FALSE)
    /\ ppc' = IF pathsOut' = <<>> THEN "retry" ELSE "done"
    /\ UNCHANGED <<graphVars, findVars, batchVars, shot, fs>>

\* lines 448-449: paths = bds.getCameraPaths(multi_episode=True)
WidenedAttempt ==
    /\ ppc = "retry"
    /\ pathsOut' = GetCameraPaths(shot, fs, TRUE)
    /\ ppc' = "done"
    /\ UNCHANGED <<graphVars, findVars, batchVars, shot, fs>>

NextPaths == FirstAttempt \/ WidenedAttempt

SpecPaths == InitPaths /\ [][NextPaths]_vars

\* C8: the list wildcard resolution returns holds no path twice, so one
\* camera file on disk gives a list of one candidate.
C8_NoDuplicatePaths ==
    ppc \in {"retry", "done"} =>
        /\ \A i, j \in 1..Len(pathsOut) : i # j => pathsOut[i] # pathsOut[j]
        /\ Cardinality(fs) = 1 => Len(pathsOut) <= 1

====
